---------------------------- MODULE Spec2Model ----------------------------
(***************************************************************************)
(* Batch source-rewriting scripts of the repository:                       *)
(*   scripts/css-variable-migration.py   (process_file, main)              *)
(*   apps/frontend/fix-duplicates.py, fix-all-duplicates.py  (fix_file)    *)
(*   apps/backend/fix_orphaned.py        (fix_orphaned_syntax, main)       *)
(* File contents are strings; TLC treats a string as a sequence of         *)
(* characters (Len, SubSeq and \o apply to it).                            *)
(***************************************************************************)
EXTENDS Integers, Sequences, FiniteSets, TLC

(***************************************************************************)
(* scripts/css-variable-migration.py: the rule list.  Each rule is         *)
(* <<regular expression, replacement>>, written as in the source (the      *)
(* regular expressions keep their backslash escapes).                      *)
(***************************************************************************)
REPLACEMENTS ==
  <<
    <<"var\\(--border\\)", "var(--color-border)">>,
    <<"var\\(--background\\)", "var(--color-background)">>,
    <<"var\\(--foreground\\)", "var(--color-foreground)">>,
    <<"var\\(--muted\\)", "var(--color-muted)">>,
    <<"var\\(--muted-foreground\\)", "var(--color-muted-foreground)">>,
    <<"var\\(--primary\\)", "var(--color-primary)">>,
    <<"var\\(--primary-foreground\\)", "var(--color-primary-foreground)">>,
    <<"var\\(--secondary\\)", "var(--color-secondary)">>,
    <<"var\\(--secondary-foreground\\)", "var(--color-secondary-foreground)">>,
    <<"var\\(--accent\\)", "var(--color-accent)">>,
    <<"var\\(--accent-foreground\\)", "var(--color-accent-foreground)">>,
    <<"var\\(--destructive\\)", "var(--color-destructive)">>,
    <<"var\\(--destructive-foreground\\)", "var(--color-destructive-foreground)">>,
    <<"var\\(--card\\)", "var(--color-card)">>,
    <<"var\\(--card-foreground\\)", "var(--color-card-foreground)">>,
    <<"var\\(--popover\\)", "var(--color-popover)">>,
    <<"var\\(--popover-foreground\\)", "var(--color-popover-foreground)">>,
    <<"var\\(--ring\\)", "var(--color-ring)">>,
    <<"var\\(--input\\)", "var(--color-input)">>,
    <<"var\\(--success\\)", "var(--color-success)">>,
    <<"var\\(--success-foreground\\)", "var(--color-success-foreground)">>,
    <<"var\\(--warning\\)", "var(--color-warning)">>,
    <<"var\\(--warning-foreground\\)", "var(--color-warning-foreground)">>,
    <<"var\\(--info\\)", "var(--color-info)">>,
    <<"var\\(--info-foreground\\)", "var(--color-info-foreground)">>,
    <<"var\\(--sidebar\\)", "var(--color-sidebar)">>,
    <<"var\\(--sidebar-foreground\\)", "var(--color-sidebar-foreground)">>,
    <<"var\\(--line-height-display-2xl\\)", "var(--leading-display-2xl)">>,
    <<"var\\(--line-height-display-xl\\)", "var(--leading-display-xl)">>,
    <<"var\\(--line-height-display-lg\\)", "var(--leading-display-lg)">>,
    <<"var\\(--line-height-display-md\\)", "var(--leading-display-md)">>,
    <<"var\\(--line-height-display-sm\\)", "var(--leading-display-sm)">>,
    <<"var\\(--line-height-large-title\\)", "var(--leading-large-title)">>,
    <<"var\\(--line-height-title-1\\)", "var(--leading-title-1)">>,
    <<"var\\(--line-height-title-2\\)", "var(--leading-title-2)">>,
    <<"var\\(--line-height-title-3\\)", "var(--leading-title-3)">>,
    <<"var\\(--line-height-headline\\)", "var(--leading-headline)">>,
    <<"var\\(--line-height-body\\)", "var(--leading-body)">>,
    <<"var\\(--line-height-callout\\)", "var(--leading-callout)">>,
    <<"var\\(--line-height-subheadline\\)", "var(--leading-subheadline)">>,
    <<"var\\(--line-height-footnote\\)", "var(--leading-footnote)">>,
    <<"var\\(--line-height-caption\\)", "var(--leading-caption)">>,
    <<"var\\(--line-height-none\\)", "var(--leading-none)">>,
    <<"var\\(--line-height-tight\\)", "var(--leading-tight)">>,
    <<"var\\(--line-height-snug\\)", "var(--leading-snug)">>,
    <<"var\\(--line-height-normal\\)", "var(--leading-normal)">>,
    <<"var\\(--line-height-relaxed\\)", "var(--leading-relaxed)">>,
    <<"var\\(--line-height-loose\\)", "var(--leading-loose)">>,
    <<"var\\(--radius-small\\)", "var(--radius-sm)">>,
    <<"var\\(--radius-medium\\)", "var(--radius-md)">>,
    <<"var\\(--radius-large\\)", "var(--radius-lg)">>,
    <<"var\\(--radius-xlarge\\)", "var(--radius-xl)">>,
    <<"var\\(--radius-xxlarge\\)", "var(--radius-2xl)">>,
    <<"var\\(--shadow-small\\)", "var(--shadow-sm)">>,
    <<"var\\(--shadow-medium\\)", "var(--shadow-md)">>,
    <<"var\\(--shadow-large\\)", "var(--shadow-lg)">>,
    <<"var\\(--font-display-2xl\\)", "var(--text-display-2xl)">>,
    <<"var\\(--font-display-xl\\)", "var(--text-display-xl)">>,
    <<"var\\(--font-display-lg\\)", "var(--text-display-lg)">>,
    <<"var\\(--font-display-md\\)", "var(--text-display-md)">>,
    <<"var\\(--font-display-sm\\)", "var(--text-display-sm)">>,
    <<"var\\(--font-large-title\\)", "var(--text-large-title)">>,
    <<"var\\(--font-title-1\\)", "var(--text-title-1)">>,
    <<"var\\(--font-title-2\\)", "var(--text-title-2)">>,
    <<"var\\(--font-title-3\\)", "var(--text-title-3)">>,
    <<"var\\(--font-headline\\)", "var(--text-headline)">>,
    <<"var\\(--font-body\\)", "var(--text-body)">>,
    <<"var\\(--font-callout\\)", "var(--text-callout)">>,
    <<"var\\(--font-subheadline\\)", "var(--text-subheadline)">>,
    <<"var\\(--font-footnote\\)", "var(--text-footnote)">>,
    <<"var\\(--font-caption-1\\)", "var(--text-caption-1)">>,
    <<"var\\(--font-caption-2\\)", "var(--text-caption-2)">>
  >>

(***************************************************************************)
(* re.compile of a rule's pattern.  Every pattern of REPLACEMENTS is a     *)
(* literal whose only regular-expression syntax is the backslash escape    *)
(* of "(" and ")": the compiled pattern matches the text with each         *)
(* backslash dropped and the escaped character kept.                       *)
(***************************************************************************)
RECURSIVE compile(_)
compile(pattern) ==
  IF pattern = "" THEN ""
  ELSE IF SubSeq(pattern, 1, 1) = "\\"
       THEN SubSeq(pattern, 2, 2) \o compile(SubSeq(pattern, 3, Len(pattern)))
       ELSE SubSeq(pattern, 1, 1) \o compile(SubSeq(pattern, 2, Len(pattern)))

\* A rule list with its patterns compiled: <<literal text, replacement>>.
Compiled(rules) ==
  [k \in 1..Len(rules) |-> <<compile(rules[k][1]), rules[k][2]>>]

CompiledReplacements == Compiled(REPLACEMENTS)

\* The literal lit occurs in content at (1-indexed) position i.
MatchAt(lit, content, i) ==
  /\ i >= 1
  /\ i + Len(lit) - 1 <= Len(content)
  /\ SubSeq(content, i, i + Len(lit) - 1) = lit

(***************************************************************************)
(* The regular-expression scanner: the position of the leftmost match of   *)
(* lit in content at or after position i, 0 when there is none.            *)
(***************************************************************************)
search(lit, content, i) ==
  LET n     == Len(lit)
      found == {j \in i..(Len(content) - n + 1) : SubSeq(content, j, j + n - 1) = lit}
  IN  IF found = {} THEN 0
      ELSE CHOOSE j \in found : \A k \in found : j <= k

(***************************************************************************)
(* list(re.finditer(pattern, content)): the start positions of the         *)
(* non-overlapping matches, leftmost first, scanning from position i.      *)
(***************************************************************************)
RECURSIVE finditer(_, _, _)
finditer(lit, content, i) ==
  LET j == search(lit, content, i)
  IN  IF j = 0 THEN <<>>
      ELSE <<j>> \o finditer(lit, content, j + Len(lit))

\* Variant of sub that replaces the first match only (re.sub with count=1).
sub_count_1(lit, replacement, content, i) ==
  LET j == search(lit, content, i)
  IN  IF j = 0 THEN SubSeq(content, i, Len(content))
      ELSE SubSeq(content, i, j - 1) \o replacement
             \o SubSeq(content, j + Len(lit), Len(content))

(***************************************************************************)
(* re.sub(pattern, replacement, content): every non-overlapping match,     *)
(* leftmost first, replaced by the replacement text; the text between      *)
(* matches is copied.                                                      *)
(***************************************************************************)
RECURSIVE sub(_, _, _, _)
sub(lit, replacement, content, i) ==
  LET j == search(lit, content, i)
  IN  IF j = 0 THEN SubSeq(content, i, Len(content))
      ELSE SubSeq(content, i, j - 1) \o replacement
             \o sub(lit, replacement, content, j + Len(lit))

\* Variant of line_num without the + 1.
line_num_zero_indexed(content, pos) ==
  Cardinality({j \in 1..(pos - 1) : SubSeq(content, j, j) = "\n"})

\* content[:start].count('\n') + 1, start being the match's 0-indexed offset
\* (the 1-indexed position pos is offset pos - 1).
line_num(content, pos) ==
  Cardinality({j \in 1..(pos - 1) : SubSeq(content, j, j) = "\n"}) + 1

\* The change records one rule appends: one per match, in match order.
MatchRecords(lit, replacement, content, matches) ==
  [m \in 1..Len(matches) |->
     [line |-> line_num(content, matches[m]),
      old  |-> SubSeq(content, matches[m], matches[m] + Len(lit) - 1),
      new  |-> replacement]]

\* Variant of rule_loop in which every rule searches the original content
\* instead of the content the rules before it produced.
RECURSIVE rule_loop_from_original(_, _, _, _, _)
rule_loop_from_original(rules, k, original, content, changes) ==
  IF k > Len(rules) THEN [content |-> content, changes |-> changes]
  ELSE LET lit         == rules[k][1]
           replacement == rules[k][2]
           matches     == finditer(lit, original, 1)
       IN  IF matches # <<>>
           THEN rule_loop_from_original(rules, k + 1, original,
                          sub(lit, replacement, content, 1),
                          changes \o MatchRecords(lit, replacement, original, matches))
           ELSE rule_loop_from_original(rules, k + 1, original, content, changes)

rule_loop_searching_original(rules, k, content, changes) ==
  rule_loop_from_original(rules, k, content, content, changes)

(***************************************************************************)
(* process_file's rule loop, from rule k on: each rule searches the        *)
(* content left by the rules before it, appends its records and            *)
(* substitutes.                                                            *)
(***************************************************************************)
RECURSIVE rule_loop(_, _, _, _)
rule_loop(rules, k, content, changes) ==
  IF k > Len(rules) THEN [content |-> content, changes |-> changes]
  ELSE LET lit         == rules[k][1]
           replacement == rules[k][2]
           matches     == finditer(lit, content, 1)
       IN  IF matches # <<>>
           THEN rule_loop(rules, k + 1, sub(lit, replacement, content, 1),
                          changes \o MatchRecords(lit, replacement, content, matches))
           ELSE rule_loop(rules, k + 1, content, changes)

\* The rule loop of process_file on one file content.
apply_replacements(content) == rule_loop(CompiledReplacements, 1, content, <<>>)

\* Variant of process_file that writes whatever dry_run is.
process_file_writes_always(file, content, perm, dry) ==
  IF perm = "unreadable"
  THEN [result |-> [file |-> file, changes |-> <<>>, modified |-> FALSE,
                    error |-> "read"],
        disk   |-> content]
  ELSE LET r == apply_replacements(content)
       IN  IF r.content # content
           THEN IF perm = "unwritable"
                THEN [result |-> [file |-> file, changes |-> r.changes,
                                  modified |-> TRUE, error |-> "write"],
                      disk   |-> content]
                ELSE [result |-> [file |-> file, changes |-> r.changes,
                                  modified |-> TRUE, error |-> ""],
                      disk   |-> r.content]
           ELSE [result |-> [file |-> file, changes |-> r.changes,
                             modified |-> FALSE, error |-> ""],
                 disk   |-> content]

\* Variant of process_file that sets modified only once the write succeeded.
process_file_flag_when_written(file, content, perm, dry) ==
  IF perm = "unreadable"
  THEN [result |-> [file |-> file, changes |-> <<>>, modified |-> FALSE,
                    error |-> "read"],
        disk   |-> content]
  ELSE LET r == apply_replacements(content)
       IN  IF r.content # content /\ ~dry
           THEN IF perm = "unwritable"
                THEN [result |-> [file |-> file, changes |-> r.changes,
                                  modified |-> FALSE, error |-> "write"],
                      disk   |-> content]
                ELSE [result |-> [file |-> file, changes |-> r.changes,
                                  modified |-> TRUE, error |-> ""],
                      disk   |-> r.content]
           ELSE [result |-> [file |-> file, changes |-> r.changes,
                             modified |-> FALSE, error |-> ""],
                 disk   |-> content]

(***************************************************************************)
(* process_file(file_path, dry_run) on a file whose content on disk is     *)
(* content and whose permissions are perm ("ok", "unreadable": read_text   *)
(* raises, "unwritable": write_text raises before the file is opened).     *)
(* Gives the result dictionary and the file's content on disk afterwards.  *)
(* The key "error" is absent from the dictionary unless an exception was   *)
(* caught; absence is the value "".                                        *)
(***************************************************************************)
process_file(file, content, perm, dry) ==
  IF perm = "unreadable"
  THEN [result |-> [file |-> file, changes |-> <<>>, modified |-> FALSE,
                    error |-> "read"],
        disk   |-> content]
  ELSE LET r == apply_replacements(content)
       IN  IF r.content # content
           THEN IF dry
                THEN [result |-> [file |-> file, changes |-> r.changes,
                                  modified |-> TRUE, error |-> ""],
                      disk   |-> content]
                ELSE IF perm = "unwritable"
                     THEN [result |-> [file |-> file, changes |-> r.changes,
                                       modified |-> TRUE, error |-> "write"],
                           disk   |-> content]
                     ELSE [result |-> [file |-> file, changes |-> r.changes,
                                       modified |-> TRUE, error |-> ""],
                           disk   |-> r.content]
           ELSE [result |-> [file |-> file, changes |-> r.changes,
                             modified |-> FALSE, error |-> ""],
                 disk   |-> content]

(***************************************************************************)
(* What main prints.  Every printed line is a record with the file it      *)
(* names (0 when it names none).                                           *)
(***************************************************************************)
Line(kind, file, text, n) == [kind |-> kind, file |-> file, text |-> text, n |-> n]

\* The banner: the mode line and "Found n files to scan".
banner(dry, n) ==
  << Line("mode", 0, IF dry THEN "DRY RUN (no changes)" ELSE "APPLY CHANGES", 0),
     Line("found", 0, "files to scan", n) >>

change_key(change) == change.old \o " -> " \o change.new

\* verbose: one line per change, "Line <line>: <old> -> <new>".
verbose_lines(file, changes) ==
  [c \in 1..Len(changes) |-> Line("change", file, change_key(changes[c]), changes[c].line)]

(***************************************************************************)
(* not verbose: the changes grouped by "<old> -> <new>", one line          *)
(* "<count>x <key>" per key, in the order the keys first appear.           *)
(***************************************************************************)
RECURSIVE change_summary(_, _, _, _)
change_summary(file, changes, c, lines) ==
  IF c > Len(changes) THEN lines
  ELSE LET key == change_key(changes[c])
       IN  IF \E l \in 1..Len(lines) : lines[l].text = key
           THEN change_summary(file, changes, c + 1,
                  [l \in 1..Len(lines) |->
                     IF lines[l].text = key
                     THEN [lines[l] EXCEPT !.n = @ + 1] ELSE lines[l]])
           ELSE change_summary(file, changes, c + 1,
                  Append(lines, Line("group", file, key, 1)))

\* What main prints for one result: nothing unless the change list is non-empty.
file_report(result, verbose) ==
  IF result.changes = <<>> THEN <<>>
  ELSE <<Line("file", result.file, "changes", Len(result.changes))>>
       \o (IF verbose THEN verbose_lines(result.file, result.changes)
           ELSE change_summary(result.file, result.changes, 1, <<>>))

\* The summary and the closing message.
summary_report(scanned, modified_files, total_changes, dry) ==
  << Line("summary", 0, "Files scanned", scanned),
     Line("summary", 0, "Files modified", modified_files),
     Line("summary", 0, "Total changes", total_changes),
     Line("closing", 0,
          IF dry /\ total_changes > 0 THEN "Run without --dry-run to apply these changes"
          ELSE IF total_changes > 0 THEN "All changes applied successfully!"
          ELSE "No changes needed - all files are up to date!", 0) >>

(***************************************************************************)
(* String operations of the line-based scripts.                            *)
(***************************************************************************)
\* content.split('\n'): the text between line breaks; n breaks give n + 1 lines.
RECURSIVE split(_)
split(content) ==
  LET j == search("\n", content, 1)
  IN  IF j = 0 THEN <<content>>
      ELSE <<SubSeq(content, 1, j - 1)>> \o split(SubSeq(content, j + 1, Len(content)))

\* '\n'.join(lines)
RECURSIVE join(_)
join(lines) ==
  IF lines = <<>> THEN ""
  ELSE IF Len(lines) = 1 THEN lines[1]
       ELSE lines[1] \o "\n" \o join(Tail(lines))

\* text in line
contains(line, text) == search(text, line, 1) # 0

startswith(line, prefix) == MatchAt(prefix, line, 1)

endswith(line, suffix) == MatchAt(suffix, line, Len(line) - Len(suffix) + 1)

Whitespace == {" ", "\t", "\r", "\n"}

\* line.strip(): leading and trailing whitespace removed.
RECURSIVE strip(_)
strip(line) ==
  IF line = "" THEN ""
  ELSE IF SubSeq(line, 1, 1) \in Whitespace THEN strip(SubSeq(line, 2, Len(line)))
  ELSE IF SubSeq(line, Len(line), Len(line)) \in Whitespace
       THEN strip(SubSeq(line, 1, Len(line) - 1))
       ELSE line

(***************************************************************************)
(* apps/frontend/fix-duplicates.py and fix-all-duplicates.py: fix_file.    *)
(* The two scripts hold the same loop; fix-all-duplicates.py wraps it in   *)
(* try/except.                                                             *)
(***************************************************************************)
LoggerImport == "import { logger } from '@/lib/logger'"

\* Variant of dedupe_loop that never skips a line.
RECURSIVE keep_all_imports(_, _, _, _)
keep_all_imports(lines, k, logger_import_seen, new_lines) ==
  IF k > Len(lines) THEN new_lines
  ELSE keep_all_imports(lines, k + 1, logger_import_seen, Append(new_lines, lines[k]))

\* The loop over the lines, from line k on.
RECURSIVE dedupe_loop(_, _, _, _)
dedupe_loop(lines, k, logger_import_seen, new_lines) ==
  IF k > Len(lines) THEN new_lines
  ELSE IF contains(lines[k], LoggerImport) /\ logger_import_seen
       THEN dedupe_loop(lines, k + 1, logger_import_seen, new_lines)
  ELSE IF contains(lines[k], LoggerImport)
       THEN dedupe_loop(lines, k + 1, TRUE, Append(new_lines, lines[k]))
       ELSE dedupe_loop(lines, k + 1, logger_import_seen, Append(new_lines, lines[k]))

\* The content fix_file writes back for the content it read.
fix_file(content) == join(dedupe_loop(split(content), 1, FALSE, <<>>))

(***************************************************************************)
(* apps/backend/fix_orphaned.py: fix_orphaned_syntax.                      *)
(***************************************************************************)
\* 'handleErrorEnhanced(' in line and line.strip().endswith(')')
is_trigger(line) ==
  /\ contains(line, "handleErrorEnhanced(")
  /\ endswith(strip(line), ")")

\* The test of the stripped next line: it looks like an orphaned property.
looks_orphaned(next_line) ==
  /\ next_line # ""
  /\ contains(next_line, ":")
  /\ (endswith(next_line, ",") \/ endswith(next_line, "}") \/ endswith(next_line, "})"))
  /\ ~startswith(next_line, "//")
  /\ ~startswith(next_line, "*")

(***************************************************************************)
(* The inner while loop, entered with i at the line after a trigger line.  *)
(* It leaves by the break after a line ending "})" (i past that line), by  *)
(* the break after appending a line that is not orphaned (i still at that  *)
(* line), or at the end of the lines.                                      *)
(***************************************************************************)
RECURSIVE skip_orphans(_, _, _, _)
skip_orphans(lines, i, new_lines, changes) ==
  IF i > Len(lines) THEN [i |-> i, new_lines |-> new_lines, changes |-> changes]
  ELSE LET next_line == strip(lines[i])
       IN  IF looks_orphaned(next_line)
           THEN IF endswith(next_line, "})")
                THEN [i |-> i + 1, new_lines |-> new_lines, changes |-> changes + 1]
                ELSE skip_orphans(lines, i + 1, new_lines, changes + 1)
           ELSE [i |-> i, new_lines |-> Append(new_lines, lines[i]), changes |-> changes]

\* The outer while loop, from line i on.
RECURSIVE scan_lines(_, _, _, _)
scan_lines(lines, i, new_lines, changes) ==
  IF i > Len(lines) THEN [new_lines |-> new_lines, changes |-> changes]
  ELSE IF is_trigger(lines[i])
       THEN LET r == skip_orphans(lines, i + 1, Append(new_lines, lines[i]), changes)
            IN  scan_lines(lines, r.i, r.new_lines, r.changes)
       ELSE scan_lines(lines, i + 1, Append(new_lines, lines[i]), changes)

(***************************************************************************)
(* fix_orphaned_syntax(file_path) on a file with the given content:        *)
(* the content on disk afterwards and the count returned.  A file that     *)
(* cannot be read raises inside the try: the count returned is 0.          *)
(***************************************************************************)
fix_orphaned_syntax(content, readable) ==
  IF ~readable THEN [disk |-> content, returned |-> 0]
  ELSE LET r           == scan_lines(split(content), 1, <<>>, 0)
           new_content == join(r.new_lines)
       IN  IF new_content # content
           THEN [disk |-> new_content, returned |-> r.changes]
           ELSE [disk |-> content, returned |-> 0]

(***************************************************************************)
(* Bounds of the model.                                                    *)
(***************************************************************************)
MaxPieces == 3
NumFiles == 2
MaxRuleLen == 2
MaxContentLen == 2
MaxDupPieces == 4
MaxLines == 3
NumTsFiles == 2

(***************************************************************************)
(* State.                                                                  *)
(***************************************************************************)
VARIABLES
  \* the rule loop run twice on one content
  e_pc, e_content, e_first, e_second,
  \* css-variable-migration.py, main: a run, and the preview run before it
  pc, tree, perms, verbose, dry_run, disk, next_file, results,
  modified_files, total_changes, printed, preview,
  \* the rule loop with a two-rule list, in both orders
  ord_pc, ord_A, ord_B, ord_content, ord_AB, ord_BA,
  \* fix-duplicates.py and fix-all-duplicates.py on one file
  dup_pc, dup_script, dup_original, dup_readable, dup_disk,
  \* fix_orphaned.py, main
  orph_pc, ts_tree, ts_readable, ts_disk, ts_next, returned, total_files,
  files_changed, total_orphans, tsc_invoked

engineVars == <<e_pc, e_content, e_first, e_second>>
cssVars == <<pc, tree, perms, verbose, dry_run, disk, next_file, results,
             modified_files, total_changes, printed, preview>>
orderVars == <<ord_pc, ord_A, ord_B, ord_content, ord_AB, ord_BA>>
dupVars == <<dup_pc, dup_script, dup_original, dup_readable, dup_disk>>
orphanVars == <<orph_pc, ts_tree, ts_readable, ts_disk, ts_next, returned,
                total_files, files_changed, total_orphans, tsc_invoked>>
vars == <<engineVars, cssVars, orderVars, dupVars, orphanVars>>

NoOutcome == [content |-> "", changes |-> <<>>]

EngineIdle ==
  /\ e_pc = "idle"
  /\ e_content = ""
  /\ e_first = NoOutcome
  /\ e_second = NoOutcome

NoPreview == [results |-> <<>>, modified_files |-> 0, total_changes |-> 0,
              printed |-> <<>>, ran |-> FALSE]

CssIdle ==
  /\ pc = "idle"
  /\ tree = <<>>
  /\ perms = <<>>
  /\ verbose = FALSE
  /\ dry_run = FALSE
  /\ disk = <<>>
  /\ next_file = 0
  /\ results = <<>>
  /\ modified_files = 0
  /\ total_changes = 0
  /\ printed = <<>>
  /\ preview = NoPreview

OrderIdle ==
  /\ ord_pc = "idle"
  /\ ord_A = <<"", "">>
  /\ ord_B = <<"", "">>
  /\ ord_content = ""
  /\ ord_AB = NoOutcome
  /\ ord_BA = NoOutcome

DupIdle ==
  /\ dup_pc = "idle"
  /\ dup_script = ""
  /\ dup_original = ""
  /\ dup_readable = FALSE
  /\ dup_disk = ""

OrphanIdle ==
  /\ orph_pc = "idle"
  /\ ts_tree = <<>>
  /\ ts_readable = <<>>
  /\ ts_disk = <<>>
  /\ ts_next = 0
  /\ returned = <<>>
  /\ total_files = 0
  /\ files_changed = 0
  /\ total_orphans = 0
  /\ tsc_invoked = FALSE

(***************************************************************************)
(* The rewrite engine alone: the rule loop of process_file applied to a    *)
(* content, then to the content it produced.                               *)
(* Inputs: contents assembled from at most MaxPieces fragments of the      *)
(* rule vocabulary (old names early and late in the rule list, a name      *)
(* that extends another rule's name, halves of a name that join across     *)
(* fragments, a line break).                                               *)
(***************************************************************************)
Fragments ==
  { "var(--border)", "var(--muted-foreground)", "var(--radius-small)",
    "var(--", "muted)", "\n" }

RECURSIVE Concat(_)
Concat(pieces) ==
  IF pieces = <<>> THEN "" ELSE Head(pieces) \o Concat(Tail(pieces))

Contents ==
  { Concat(p) : p \in UNION { [1..n -> Fragments] : n \in 0..MaxPieces } }

EngineInit ==
  /\ e_pc = "input"
  /\ e_content \in Contents
  /\ e_first = NoOutcome
  /\ e_second = NoOutcome
  /\ CssIdle
  /\ OrderIdle
  /\ DupIdle
  /\ OrphanIdle

\* The rule loop runs on the file content.
EngineApply ==
  /\ e_pc = "input"
  /\ e_first' = apply_replacements(e_content)
  /\ e_pc' = "once"
  /\ UNCHANGED <<e_content, e_second, cssVars, orderVars, dupVars, orphanVars>>

\* The rule loop runs again, on the content the first run produced.
EngineReapply ==
  /\ e_pc = "once"
  /\ e_second' = apply_replacements(e_first.content)
  /\ e_pc' = "twice"
  /\ UNCHANGED <<e_content, e_first, cssVars, orderVars, dupVars, orphanVars>>

EngineNext == EngineApply \/ EngineReapply

SpecEngine == EngineInit /\ [][EngineNext]_vars

(***************************************************************************)
(* scripts/css-variable-migration.py, main.  find_files gives the sorted   *)
(* list of paths; file k is its k-th path.  The script is run with         *)
(* --dry-run (the preview) and then without, as its usage text says, or    *)
(* without --dry-run straight away.                                        *)
(***************************************************************************)
Files == 1..NumFiles

FileContents ==
  { "x\n", "var(--border)", "var(--muted)\nvar(--border) var(--muted)" }

Perms == {"ok", "unreadable", "unwritable"}

CssInit ==
  /\ pc = "loop"
  /\ tree \in [Files -> FileContents]
  /\ perms \in [Files -> Perms]
  /\ verbose \in BOOLEAN
  /\ dry_run \in BOOLEAN
  /\ disk = tree
  /\ next_file = 1
  /\ results = <<>>
  /\ modified_files = 0
  /\ total_changes = 0
  /\ printed = banner(dry_run, NumFiles)
  /\ preview = NoPreview
  /\ EngineIdle
  /\ OrderIdle
  /\ DupIdle
  /\ OrphanIdle

\* Variant of MainLoop that leaves the loop when a file's result holds an error.
MainLoopStopsOnError ==
  /\ pc = "loop"
  /\ next_file <= NumFiles
  /\ \E out \in {process_file(next_file, disk[next_file], perms[next_file], dry_run)} :
       /\ disk' = [disk EXCEPT ![next_file] = out.disk]
       /\ results' = Append(results, out.result)
       /\ modified_files' = IF out.result.changes # <<>> THEN modified_files + 1
                            ELSE modified_files
       /\ total_changes' = total_changes + Len(out.result.changes)
       /\ printed' = printed \o file_report(out.result, verbose)
       /\ next_file' = IF out.result.error # "" THEN NumFiles + 1 ELSE next_file + 1
  /\ UNCHANGED <<pc, tree, perms, verbose, dry_run, preview, engineVars, orderVars, dupVars, orphanVars>>

\* One iteration of main's loop over the files.
MainLoop ==
  /\ pc = "loop"
  /\ next_file <= NumFiles
  /\ \E out \in {process_file(next_file, disk[next_file], perms[next_file], dry_run)} :
       /\ disk' = [disk EXCEPT ![next_file] = out.disk]
       /\ results' = Append(results, out.result)
       /\ modified_files' = IF out.result.changes # <<>> THEN modified_files + 1
                            ELSE modified_files
       /\ total_changes' = total_changes + Len(out.result.changes)
       /\ printed' = printed \o file_report(out.result, verbose)
  /\ next_file' = next_file + 1
  /\ UNCHANGED <<pc, tree, perms, verbose, dry_run, preview, engineVars, orderVars, dupVars, orphanVars>>

\* After the loop: the summary is printed and the run ends.
MainSummary ==
  /\ pc = "loop"
  /\ next_file > NumFiles
  /\ printed' = printed \o summary_report(NumFiles, modified_files, total_changes, dry_run)
  /\ pc' = "done"
  /\ UNCHANGED <<tree, perms, verbose, dry_run, disk, next_file, results,
                 modified_files, total_changes, preview, engineVars, orderVars, dupVars, orphanVars>>

\* After a preview the script is run again without --dry-run, on the tree as
\* the preview left it.
RunWithoutDryRun ==
  /\ pc = "done"
  /\ dry_run
  /\ preview' = [results |-> results, modified_files |-> modified_files,
                 total_changes |-> total_changes, printed |-> printed, ran |-> TRUE]
  /\ dry_run' = FALSE
  /\ pc' = "loop"
  /\ next_file' = 1
  /\ results' = <<>>
  /\ modified_files' = 0
  /\ total_changes' = 0
  /\ printed' = banner(FALSE, NumFiles)
  /\ UNCHANGED <<tree, perms, verbose, disk, engineVars, orderVars, dupVars, orphanVars>>

Next == MainLoop \/ MainSummary \/ RunWithoutDryRun

Spec == CssInit /\ [][Next]_vars

(***************************************************************************)
(* The rule loop of process_file with a two-rule list in place of          *)
(* REPLACEMENTS, run on one content with the rules in the order [A, B]     *)
(* and in the order [B, A].  Patterns are non-empty literals and           *)
(* replacements literals over a two-letter alphabet, at most MaxRuleLen    *)
(* long; A's replacement text holds a match of B's pattern and the         *)
(* content holds a match of A's pattern.                                   *)
(***************************************************************************)
Alphabet == {"a", "b"}

Words(n) == { Concat(p) : p \in UNION { [1..m -> Alphabet] : m \in 0..n } }

Rules == { <<p, r>> : p \in Words(MaxRuleLen) \ {""}, r \in Words(MaxRuleLen) }

OrderInit ==
  /\ ord_pc = "input"
  /\ ord_A \in Rules
  /\ ord_B \in { r \in Rules : contains(ord_A[2], compile(r[1])) }
  /\ ord_content \in { c \in Words(MaxContentLen) : contains(c, compile(ord_A[1])) }
  /\ ord_AB = NoOutcome
  /\ ord_BA = NoOutcome
  /\ EngineIdle
  /\ CssIdle
  /\ DupIdle
  /\ OrphanIdle

\* The rule loop with the rule list [A, B].
ApplyAB ==
  /\ ord_pc \in {"input", "BA"}
  /\ ord_AB' = rule_loop(Compiled(<<ord_A, ord_B>>), 1, ord_content, <<>>)
  /\ ord_pc' = IF ord_pc = "input" THEN "AB" ELSE "both"
  /\ UNCHANGED <<ord_A, ord_B, ord_content, ord_BA, engineVars, cssVars, dupVars, orphanVars>>

\* The rule loop with the rule list [B, A].
ApplyBA ==
  /\ ord_pc \in {"input", "AB"}
  /\ ord_BA' = rule_loop(Compiled(<<ord_B, ord_A>>), 1, ord_content, <<>>)
  /\ ord_pc' = IF ord_pc = "input" THEN "BA" ELSE "both"
  /\ UNCHANGED <<ord_A, ord_B, ord_content, ord_AB, engineVars, cssVars, dupVars, orphanVars>>

OrderNext == ApplyAB \/ ApplyBA

SpecOrder == OrderInit /\ [][OrderNext]_vars

(***************************************************************************)
(* apps/frontend/fix-duplicates.py and fix-all-duplicates.py on one file   *)
(* that exists.  Contents are assembled from at most MaxDupPieces pieces:  *)
(* the import text, a line break, other text.                              *)
(***************************************************************************)
DupFragments == { LoggerImport, "\n", "x" }

DupContents ==
  { Concat(p) : p \in UNION { [1..n -> DupFragments] : n \in 0..MaxDupPieces } }

DupInit ==
  /\ dup_pc = "start"
  /\ dup_script \in {"fix-duplicates.py", "fix-all-duplicates.py"}
  /\ dup_original \in DupContents
  /\ dup_readable \in BOOLEAN
  /\ dup_disk = dup_original
  /\ EngineIdle
  /\ CssIdle
  /\ OrderIdle
  /\ OrphanIdle

\* fix-duplicates.py: fix_file has no try; a read that raises ends the script.
FixDuplicates ==
  /\ dup_pc = "start"
  /\ dup_script = "fix-duplicates.py"
  /\ IF dup_readable
     THEN dup_disk' = fix_file(dup_disk) /\ dup_pc' = "fixed"
     ELSE dup_disk' = dup_disk /\ dup_pc' = "raised"
  /\ UNCHANGED <<dup_script, dup_original, dup_readable,
                 engineVars, cssVars, orderVars, orphanVars>>

\* fix-all-duplicates.py: fix_file catches the exception and returns False.
FixAllDuplicates ==
  /\ dup_pc = "start"
  /\ dup_script = "fix-all-duplicates.py"
  /\ IF dup_readable
     THEN dup_disk' = fix_file(dup_disk) /\ dup_pc' = "fixed"
     ELSE dup_disk' = dup_disk /\ dup_pc' = "error"
  /\ UNCHANGED <<dup_script, dup_original, dup_readable,
                 engineVars, cssVars, orderVars, orphanVars>>

DupNext == FixDuplicates \/ FixAllDuplicates

SpecDup == DupInit /\ [][DupNext]_vars

(***************************************************************************)
(* apps/backend/fix_orphaned.py, main.  os.walk gives the .ts files in     *)
(* some order; file k is the k-th of them.  Contents are at most MaxLines  *)
(* lines, each a trigger line, an orphaned property line, an orphaned      *)
(* line that closes the block, or a line that is none of these.            *)
(***************************************************************************)
TsFiles == 1..NumTsFiles

OrphanLines ==
  { "  this.handleErrorEnhanced(error)", "    id: 1,", "    op: 2 })", "  }" }

TsContents ==
  { join(l) : l \in UNION { [1..n -> OrphanLines] : n \in 0..MaxLines } }

OrphanInit ==
  /\ orph_pc = "walk"
  /\ ts_tree \in [TsFiles -> TsContents]
  /\ ts_readable \in [TsFiles -> BOOLEAN]
  /\ ts_disk = ts_tree
  /\ ts_next = 1
  /\ returned = <<>>
  /\ total_files = 0
  /\ files_changed = 0
  /\ total_orphans = 0
  /\ tsc_invoked = FALSE
  /\ EngineIdle
  /\ CssIdle
  /\ OrderIdle
  /\ DupIdle

\* One .ts file of the walk.
OrphanLoop ==
  /\ orph_pc = "walk"
  /\ ts_next <= NumTsFiles
  /\ \E out \in {fix_orphaned_syntax(ts_disk[ts_next], ts_readable[ts_next])} :
       /\ ts_disk' = [ts_disk EXCEPT ![ts_next] = out.disk]
       /\ returned' = Append(returned, out.returned)
       /\ files_changed' = IF out.returned > 0 THEN files_changed + 1 ELSE files_changed
       /\ total_orphans' = IF out.returned > 0 THEN total_orphans + out.returned
                           ELSE total_orphans
  /\ total_files' = total_files + 1
  /\ ts_next' = ts_next + 1
  /\ UNCHANGED <<orph_pc, ts_tree, ts_readable, tsc_invoked,
                 engineVars, cssVars, orderVars, dupVars>>

\* After the walk: the totals are printed and, if files_changed > 0, the
\* TypeScript check is run.
OrphanFinish ==
  /\ orph_pc = "walk"
  /\ ts_next > NumTsFiles
  /\ tsc_invoked' = (files_changed > 0)
  /\ orph_pc' = "done"
  /\ UNCHANGED <<ts_tree, ts_readable, ts_disk, ts_next, returned, total_files,
                 files_changed, total_orphans, engineVars, cssVars, orderVars, dupVars>>

OrphanNext == OrphanLoop \/ OrphanFinish

SpecOrphan == OrphanInit /\ [][OrphanNext]_vars

(***************************************************************************)
(* Claims.                                                                 *)
(***************************************************************************)

\* C1: idempotency of the rule loop with REPLACEMENTS: run on the content a
\* first run produced, it records no change and leaves the content as it is.
C1_Idempotent ==
  e_pc = "twice" =>
    /\ e_second.changes = <<>>
    /\ e_second.content = e_first.content

\* A second run was made on a content the first run rewrote in two places.
C1_Witness ==
  /\ e_pc = "twice"
  /\ Len(e_first.changes) >= 2
  /\ e_first.content # e_content

\* The finished run under --dry-run and the finished run without it made
\* the same records: per file the same change records in the same order and
\* the same modified flag, and the same three summary counts.
SameRecords ==
  /\ Len(results) = Len(preview.results)
  /\ \A k \in 1..Len(results) :
       /\ results[k].changes = preview.results[k].changes
       /\ results[k].modified = preview.results[k].modified
  /\ modified_files = preview.modified_files
  /\ total_changes = preview.total_changes

\* C2: dry-run equivalence: started from the same tree, the run with
\* dry_run = true and the run with dry_run = false give the same per-file
\* change records and modified flags and the same summary counts.
C2_DryRunEquivalence ==
  (pc = "done" /\ ~dry_run /\ preview.ran) => SameRecords

\* Both runs are finished, the second rewrote a file on disk and failed to
\* write another that it had changes for.
C2_Witness ==
  /\ pc = "done" /\ ~dry_run /\ preview.ran
  /\ disk # tree
  /\ \E k \in Files : results[k].error = "write" /\ results[k].changes # <<>>

\* C3: under dry_run = true no file's content on disk changes, whatever
\* files were processed and whichever of them could not be read.
C3_DryRunWritesNothing ==
  dry_run => disk = tree

\* A finished dry run that found changes in one file and could not read another.
C3_Witness ==
  /\ dry_run /\ pc = "done"
  /\ \E k \in Files : results[k].modified
  /\ \E k \in Files : results[k].error = "read"

\* C4 as stated: with A's replacement matching B's pattern and a match of A
\* in the content, the orders [A, B] and [B, A] give different final contents.
C4_OrderAlwaysMatters ==
  ord_pc = "both" => ord_AB.content # ord_BA.content

\* C4, amended: rule B searches the content rule A produced: [A, B] records a
\* change of B's pattern also when that pattern has no match in the original
\* content; and when it has none there and B's replacement differs from B's
\* pattern text, [A, B] and [B, A] give different final contents.
C4_LaterRuleSeesEarlierOutput ==
  (ord_pc = "both" /\ ~contains(ord_content, compile(ord_B[1]))) =>
    /\ \E c \in 1..Len(ord_AB.changes) : ord_AB.changes[c].old = compile(ord_B[1])
    /\ ord_BA.content = sub(compile(ord_A[1]), ord_A[2], ord_content, 1)
    /\ (ord_B[2] # compile(ord_B[1]) => ord_AB.content # ord_BA.content)

\* Both orders were run with B's pattern absent from the original content
\* and B's replacement different from B's pattern.
C4_Witness ==
  /\ ord_pc = "both"
  /\ ~contains(ord_content, compile(ord_B[1]))
  /\ ord_B[2] # compile(ord_B[1])
  /\ Len(ord_AB.changes) >= 2

\* The positions at which lit occurs in content.
Occurrences(lit, content) ==
  {j \in 1..Len(content) : j + Len(lit) - 1 <= Len(content)
                           /\ SubSeq(content, j, j + Len(lit) - 1) = lit}

\* The 1-indexed number of the line of content that holds position pos.
LineOf(content, pos) ==
  1 + Cardinality({j \in 1..Len(content) : j < pos /\ SubSeq(content, j, j) = "\n"})

RECURSIVE Ascending(_)
Ascending(S) ==
  IF S = {} THEN <<>>
  ELSE LET m == CHOOSE x \in S : \A y \in S : x <= y
       IN  <<m>> \o Ascending(S \ {m})

\* One record per occurrence in the original content of each rule's text, rule
\* by rule in list order, by ascending position, with the occurrence's line.
RECURSIVE RecordsOfOriginal(_, _)
RecordsOfOriginal(original, k) ==
  IF k > Len(CompiledReplacements) THEN <<>>
  ELSE LET lit == CompiledReplacements[k][1]
           at  == Ascending(Occurrences(lit, original))
       IN  [m \in 1..Len(at) |->
              [line |-> LineOf(original, at[m]), old |-> lit,
               new |-> CompiledReplacements[k][2]]]
           \o RecordsOfOriginal(original, k + 1)

\* C5: process_file's rule loop records one change per match instance, per
\* rule in ascending match position, each with the line number the match has
\* in the original content, also when earlier rules have rewritten the content.
C5_RecordPerMatchOriginalLine ==
  e_pc = "once" => e_first.changes = RecordsOfOriginal(e_content, 1)

\* A later rule's match was recorded on a later line after an earlier rule
\* had rewritten the first line.
C5_Witness ==
  /\ e_pc = "once"
  /\ Len(e_first.changes) >= 2
  /\ e_first.changes[1].line = 1
  /\ e_first.changes[2].line = 2
  /\ e_first.changes[1].old # e_first.changes[2].old

\* C6: isolation on error: with a file that cannot be read, every other file
\* is rewritten as it would be without it, the failing file is not counted
\* in files modified, and the failing file's error is in the printed output.
C6_IsolationOnError ==
  (pc = "done" /\ ~dry_run) =>
    \A f \in Files : perms[f] = "unreadable" =>
      /\ \A g \in Files : perms[g] = "ok" =>
           disk[g] = apply_replacements(tree[g]).content
      /\ modified_files = Cardinality({g \in Files \ {f} : results[g].changes # <<>>})
      /\ results[f].error # ""
      /\ \E l \in 1..Len(printed) : printed[l].file = f

\* C8: at the end of a run the files-modified count is the number of results
\* with modified = true, and modified is true exactly for the files that were
\* read and whose rewritten content differs from the original.
C8_ModifiedCount ==
  pc = "done" =>
    /\ modified_files = Cardinality({k \in Files : results[k].modified})
    /\ \A k \in Files :
         results[k].modified <=>
           (perms[k] # "unreadable" /\ apply_replacements(tree[k]).content # tree[k])
    /\ \A k \in Files :
         (~dry_run /\ perms[k] = "ok") => (results[k].modified <=> disk[k] # tree[k])

\* A finished run that counted a file whose write raised, beside a file
\* whose read raised.
C8_Witness ==
  /\ pc = "done"
  /\ modified_files >= 1
  /\ \E k \in Files : results[k].error = "write"
  /\ \E k \in Files : results[k].error = "read"

\* The lines of a content that hold the logger import text, by index.
ImportLines(lines) == {k \in 1..Len(lines) : contains(lines[k], LoggerImport)}

\* The lines that do not hold it, in order.
RECURSIVE OtherLines(_)
OtherLines(lines) ==
  IF lines = <<>> THEN <<>>
  ELSE IF contains(Head(lines), LoggerImport) THEN OtherLines(Tail(lines))
       ELSE <<Head(lines)>> \o OtherLines(Tail(lines))

\* C7: after fix_file at most one line holds the logger import text; if the
\* input held any, exactly one remains, the first occurrence at its original
\* line index; the other lines are all kept, unchanged and in order.
C7_KeepFirstImport ==
  dup_pc = "fixed" =>
    LET before == split(dup_original)
        after  == split(dup_disk)
    IN  /\ Cardinality(ImportLines(after)) <= 1
        /\ ImportLines(before) # {} =>
              /\ Cardinality(ImportLines(after)) = 1
              /\ \A k \in ImportLines(after) :
                    /\ k \in ImportLines(before)
                    /\ \A j \in ImportLines(before) : k <= j
                    /\ after[k] = before[k]
        /\ OtherLines(after) = OtherLines(before)

\* fix_file ran on a content with two import lines after a first other line.
C7_Witness ==
  /\ dup_pc = "fixed"
  /\ Cardinality(ImportLines(split(dup_original))) >= 2
  /\ 1 \notin ImportLines(split(dup_original))
  /\ dup_disk # dup_original

\* out is lines with some of its lines left out.
RECURSIVE IsSubsequence(_, _)
IsSubsequence(out, lines) ==
  IF out = <<>> THEN TRUE
  ELSE IF lines = <<>> THEN FALSE
  ELSE IF Head(out) = Head(lines) THEN IsSubsequence(Tail(out), Tail(lines))
       ELSE IsSubsequence(out, Tail(lines))

\* C9: fix_orphaned_syntax only removes lines: the lines of the file
\* afterwards are the input lines with the skipped lines (as many as the
\* count of changes) left out, every other line kept once and in order.
C9_OnlyRemovesLines ==
  \A f \in TsFiles : (orph_pc # "idle" /\ f < ts_next /\ ts_readable[f]) =>
    /\ IsSubsequence(split(ts_disk[f]), split(ts_tree[f]))
    /\ Len(split(ts_disk[f])) = Len(split(ts_tree[f])) - returned[f]

\* C10: a file is written exactly when fix_orphaned_syntax returns a count
\* above 0 for it; so when a file was rewritten, files_changed > 0 and the
\* TypeScript check is invoked, and only once every file has been processed.
C10_WrittenIffCounted ==
  /\ \A f \in TsFiles : (orph_pc # "idle" /\ f < ts_next) =>
        (ts_disk[f] # ts_tree[f] <=> returned[f] > 0)
  /\ orph_pc = "done" =>
        ((\E f \in TsFiles : ts_disk[f] # ts_tree[f]) => (files_changed > 0 /\ tsc_invoked))
  /\ tsc_invoked => ts_next > NumTsFiles

\* C11: partial success on write failure: in a run without --dry-run, when
\* the write of a file fails the error is in that file's result, the files
\* written before it keep their rewritten content, the files after it are
\* processed and rewritten, and the run ends with all files processed and the
\* summary printed.
C11_PartialSuccessOnWriteFailure ==
  (pc # "idle" /\ ~dry_run
     /\ \E n \in 1..Len(results) : perms[n] = "unwritable" /\ results[n].modified) =>
    /\ \A n \in 1..Len(results) :
         (perms[n] = "unwritable" /\ results[n].modified) => results[n].error = "write"
    /\ \A k \in 1..Len(results) :
         perms[k] = "ok" =>
           /\ results[k].error = ""
           /\ disk[k] = apply_replacements(tree[k]).content
    /\ pc = "loop" => next_file = Len(results) + 1
    /\ pc = "done" =>
         /\ Len(results) = NumFiles
         /\ \E l \in 1..Len(printed) :
              printed[l] = Line("summary", 0, "Files scanned", NumFiles)
         /\ \E l \in 1..Len(printed) :
              printed[l] = Line("summary", 0, "Total changes", total_changes)

\* A finished run without --dry-run in which the write of the last file
\* failed after an earlier file had been rewritten on disk.
C11_Witness ==
  /\ pc = "done" /\ ~dry_run
  /\ results[NumFiles].error = "write"
  /\ \E k \in 1..(NumFiles - 1) : disk[k] # tree[k] /\ results[k].modified

\* A run without --dry-run went on after a failed write and rewrote a later file.
C11_ContinuesWitness ==
  /\ ~dry_run /\ pc # "idle"
  /\ Len(results) >= 2
  /\ results[1].error = "write"
  /\ \E k \in 2..Len(results) : disk[k] # tree[k] /\ results[k].modified
=============================================================================
